---- MODULE Spec2Model ----
(***************************************************************************)
(* Model of decompile.py: the per-item pipeline (check_version, the        *)
(* version gate, download_apk, decompile_apk with its progress-monitor     *)
(* thread, save_version, cleanup) driven by the run loop of main, and      *)
(* discover_apps.                                                          *)
(*                                                                         *)
(* The file system is modelled by three maps keyed by package:             *)
(*   ledger[p]   content of versions/<p>.version        (NoFile if absent) *)
(*   apks[p]     apks/<p>: NoScratch or the sizes of the files in it        *)
(*   sources[p]  sources/<p>: NoDir or the number of .java files in it     *)
(* and dirs, whether apks/, sources/ and versions/ themselves exist.       *)
(* Version strings are sequences of characters so that str.strip() is a    *)
(* real conversion.                                                        *)
(*                                                                         *)
(* Spec explores invocations restricted to one package (--package) with    *)
(* the full range of version strings; SpecMon explores the same            *)
(* invocations with the full range of decompiler output and class counts;  *)
(* SpecRun explores one invocation over several items; SpecRace explores   *)
(* invocations in which the site may publish a new version between the     *)
(* check and the download; SpecJoin explores one invocation under fair     *)
(* scheduling of the main thread and the monitor thread. In these, main    *)
(* takes the result of discover_apps and of the --package filter as an     *)
(* input: any sequence of distinct packages. SpecDisc explores             *)
(* discover_apps over listing pages with several links, SpecPages over     *)
(* more pages with fewer links, and SpecAll explores one invocation from   *)
(* discover_apps to the summary.                                           *)
(***************************************************************************)
EXTENDS Naturals, Integers, Sequences, FiniteSets, TLC

\* ------------------------------------------------------------------ bounds
MaxVerLen == 2      \* longest version string the site serves (Spec)
MaxFiles == 2       \* most .java files the decompiler writes per attempt (SpecMon)
MaxClasses == 2     \* largest class count read from the DEX headers (SpecMon)
FewVerLen == 1      \* longest version string where versions are not the subject
FewFiles == 1       \* most .java files per attempt where progress is not the subject
FewClasses == 1     \* largest class count where progress is not the subject
MaxLinks == 2       \* most app links on one listing page (SpecDisc)
MaxPages == 3       \* most listing pages a developer has (SpecPages)
FewPages == 2       \* most listing pages where pagination is not the subject
FewLinks == 1       \* most app links on one page where pagination is the subject

\* --------------------------------------------------------------- constants
MinApkBytes == 524288   \* 0.5 * 1024 * 1024: the size floor of download_apk
PctCap == 999           \* 99.9 %, in tenths of a percent
PctFull == 1000         \* 100.0 %, in tenths of a percent

Packages == {"a.b", "c.d"}
DEVELOPERS == <<"Google LLC", "Waze">>   \* two of the tracked developers
Slugs == {"s", "t"}
Names == {<<"A", " ">>}
Chars == {"1", " "}
Whitespace == {" "}
PayloadSizes == {102400, 524287, 524288}
Urls == {"u", "v"}

NoFile == <<"NoFile">>
None == <<"None">>
NoDir == -1
NoScratch == <<NoDir>>
NoLine == [kind |-> "none", num |-> 0, den |-> 1]

NoPage == [ok |-> FALSE, r2_links |-> <<>>, d_links |-> <<>>]
NoResponse == [ok |-> FALSE, links |-> <<>>, markers |-> {}]

\* The non-empty strings of at most n characters.
NonEmptyStrings(n) == UNION {[1..k -> Chars] : k \in 1..n}

VARIABLES
    ledger,           \* versions/<p>.version
    apks,             \* apks/<p>
    sources,          \* sources/<p>
    dirs,             \* apks/, sources/ and versions/ exist
    pc,               \* position of the main thread
    force,            \* args.force
    list_apps,        \* args.list_apps
    apps,             \* the discovered apps of this run (packages, deduplicated)
    idx,              \* position of the run loop in apps
    results,          \* results dict of main
    exit_status,      \* status the last invocation exited with (-1: none has exited,
                      \* or one is running)
    ending,           \* how the last invocation ended, by the last thing it printed:
                      \* "no_jadx", "unknown_developer", "package_not_found" (the
                      \* ERROR lines of main), "table" (list mode), "summary",
                      \* "traceback"; "none": none has ended, or one is running
    current_version,  \* process_app: current_version
    success,          \* process_app: success
    total_classes,    \* decompile_apk: total_classes
    returncode,       \* decompile_apk: result.returncode
    dl_page,          \* download_apk: r, the download page, with r2_links and d_links
    dl_url,           \* download_apk: dl_url
    stop_event,       \* decompile_apk: stop_event
    mpc,              \* position of the monitor thread
    output_dir,       \* monitor_decompile_progress: output_dir (its package)
    last_count,       \* monitor_decompile_progress: last_count
    progress,         \* the progress line on the terminal (each print starts with \r)
    developers,       \* discover_apps: developers
    dev,              \* discover_apps: position of the for loop in developers
    page,             \* discover_apps: page
    r,                \* discover_apps: the response to the request of this page
    all_apps,         \* discover_apps: all_apps
    seen_packages,    \* discover_apps: seen_packages
    dpc,              \* position of discover_apps
    artifact,         \* history: the version the site published for the payload
                      \* download_apk wrote for this item (None: none written)
    runs,             \* invocations so far, counted only where a single one is explored
    last_run          \* history: per package, the version its latest completed
                      \* process_app call saw if that call returned True, else None

vars == <<ledger, apks, sources, dirs, pc, force, list_apps, apps, idx, results,
          exit_status, ending, current_version, success, total_classes, returncode,
          dl_page, dl_url, artifact, stop_event, mpc, output_dir, last_count, progress,
          developers, dev, page, r, all_apps, seen_packages, dpc, runs, last_run>>

fsVars == <<ledger, apks, sources, dirs>>
runVars == <<force, list_apps, apps, idx, results, exit_status, ending, runs>>
dlVars == <<dl_page, dl_url>>
itemVars == <<current_version, success, total_classes, returncode, dlVars, artifact>>
monVars == <<stop_event, mpc, output_dir, last_count, progress>>
discVars == <<developers, dev, page, r, all_apps, seen_packages, dpc>>

\* ------------------------------------------------------------ pure helpers
Min(a, b) == IF a <= b THEN a ELSE b

RECURSIVE LStrip(_)
LStrip(s) == IF s = <<>> THEN s
             ELSE IF Head(s) \in Whitespace THEN LStrip(Tail(s)) ELSE s

RECURSIVE RStrip(_)
RStrip(s) == IF s = <<>> THEN s
             ELSE IF s[Len(s)] \in Whitespace THEN RStrip(SubSeq(s, 1, Len(s) - 1))
             ELSE s

\* str.strip()
Strip(s) == RStrip(LStrip(s))

\* Python truthiness of a value that is None or a str
Truthy(v) == v /= None /\ v /= <<>>

\* get_stored_version(package), reading the ledger l
StoredIn(l, p) == IF l[p] /= NoFile THEN Strip(l[p]) ELSE None

get_stored_version(p) == StoredIn(ledger, p)

\* save_version(package, version): the ledger after the write
save_version(p, v) == [ledger EXCEPT ![p] = v]

\* The detail page as check_version sees it: whether the request succeeded,
\* the capture of the "softwareVersion" pattern and the capture of the
\* class="version" pattern (None: the pattern does not match; both patterns
\* capture one or more characters).
Pages(n) == [ok : BOOLEAN,
             softwareVersion : NonEmptyStrings(n) \cup {None},
             versionElem : NonEmptyStrings(n) \cup {None}]

\* check_version(session, app_path)
check_version(detail) ==
    IF ~detail.ok THEN None
    ELSE IF detail.softwareVersion /= None THEN detail.softwareVersion
    ELSE IF detail.versionElem /= None THEN Strip(detail.versionElem)
    ELSE None

\* The versions the site may publish for an app: what check_version reports
\* for a detail page that shows a version.
Published(n) == {check_version(d) : d \in Pages(n)} \ {None, <<>>}

\* The package the run loop is at.
Pkg == apps[idx]

\* The sequences of distinct packages of S: what discover_apps, followed by
\* the --package filter, can leave in apps.
AppLists(S) == {s \in UNION {[1..k -> S] : k \in 0..Cardinality(S)} :
                   \A i, j \in 1..Len(s) : i /= j => s[i] /= s[j]}

\* apps as main has it after discover_apps returned entries: their packages,
\* all of them or, with --package, those of the given package.
Discovered(entries) ==
    LET pkgs == [i \in 1..Len(entries) |-> entries[i].package]
    IN {pkgs} \cup {SelectSeq(pkgs, LAMBDA q : q = p) : p \in Packages}

\* ------------------------------------------------------------------- Init
Init ==
    /\ ledger = [p \in Packages |-> NoFile]
    /\ apks = [p \in Packages |-> NoScratch]
    /\ sources = [p \in Packages |-> NoDir]
    /\ dirs = FALSE
    /\ pc = "idle"
    /\ force = FALSE
    /\ list_apps = FALSE
    /\ apps = <<>>
    /\ idx = 0
    /\ results = [p \in Packages |-> "none"]
    /\ exit_status = -1
    /\ ending = "none"
    /\ current_version = None
    /\ success = FALSE
    /\ total_classes = 0
    /\ returncode = 0
    /\ dl_page = NoPage
    /\ dl_url = None
    /\ artifact = None
    /\ stop_event = FALSE
    /\ mpc = "none"
    /\ output_dir = "a.b"
    /\ last_count = 0
    /\ progress = NoLine
    /\ developers = <<>>
    /\ dev = 0
    /\ page = 0
    /\ r = NoResponse
    /\ all_apps = <<>>
    /\ seen_packages = {}
    /\ dpc = "none"
    /\ runs = 0
    /\ last_run = [p \in Packages |-> None]

\* ------------------------------------------------------------------- main
\* main, up to the run loop: a new invocation (once: only the first one on
\* a fresh checkout is explored). Its inputs: --force, --list, whether the
\* jadx binary is installed, whether --developer (if given) names a tracked
\* developer, whether --package is given, and the apps left by discovery
\* and the --package filter. It returns early with status 1 when jadx is
\* missing (before any directory is made), when the developer is unknown or
\* the package was not discovered, and with status 0 after the table of
\* list mode; idx = 0 says the run loop was not entered. The new process
\* holds nothing of the previous one's process_app.
Main(f, l, jadx, dev_ok, pkg_given, a, once) ==
    /\ pc = "idle"
    /\ once => runs = 0
    /\ pkg_given => Len(a) <= 1
    /\ runs' = IF once THEN 1 ELSE runs
    /\ force' = f
    /\ list_apps' = l
    /\ results' = [p \in Packages |-> "none"]
    /\ IF ~l /\ ~jadx
       THEN /\ exit_status' = 1 /\ ending' = "no_jadx"
            /\ UNCHANGED dirs
            /\ apps' = <<>> /\ idx' = 0 /\ pc' = "idle"
       ELSE /\ dirs' = TRUE
            /\ IF ~dev_ok
               THEN /\ exit_status' = 1 /\ ending' = "unknown_developer"
                    /\ apps' = <<>> /\ idx' = 0 /\ pc' = "idle"
               ELSE IF pkg_given /\ a = <<>>
               THEN /\ exit_status' = 1 /\ ending' = "package_not_found"
                    /\ apps' = <<>> /\ idx' = 0 /\ pc' = "idle"
               ELSE IF l
               THEN /\ exit_status' = 0 /\ ending' = "table"
                    /\ apps' = a /\ idx' = 0 /\ pc' = "idle"
               ELSE /\ exit_status' = -1 /\ ending' = "none"
                    /\ apps' = a /\ idx' = 1 /\ pc' = "loop"
    /\ current_version' = None
    /\ success' = FALSE
    /\ UNCHANGED <<ledger, apks, sources, total_classes, returncode, dlVars, artifact,
                   monVars, last_run>>
    /\ UNCHANGED discVars

\* Mutant: the status tells whether any item succeeded.
ExitStatus_CountsSucceeded(res) == IF \E p \in Packages : res[p] = "OK" THEN 1 ELSE 0

\* The exit status main returns after the summary.
ExitStatus(res) == IF \E p \in Packages : res[p] = "FAILED" THEN 1 ELSE 0

\* The counts the summary prints: "changed" and "failed", over the values
\* of results.
Changed(res) == Cardinality({p \in Packages : res[p] = "OK"})

Failed(res) == Cardinality({p \in Packages : res[p] = "FAILED"})

\* main, after the loop: summary and exit status.
Summary ==
    /\ pc = "loop"
    /\ idx > Len(apps)
    /\ exit_status' = ExitStatus(results)
    /\ ending' = "summary"
    /\ pc' = "idle"
    /\ UNCHANGED <<fsVars, force, list_apps, apps, idx, results, runs, itemVars,
                   monVars, last_run>>
    /\ UNCHANGED discVars

\* ------------------------------------------------------------ process_app
\* Mutant: the gate forgets the force flag.
VersionUnchanged_IgnoresForce(cur, stored, f) == Truthy(cur) /\ stored = cur

\* process_app's version gate: the item is skipped as unchanged.
VersionUnchanged(cur, stored, f) == Truthy(cur) /\ stored = cur /\ ~f

\* The run loop's next item, process_app up to the gate: check_version,
\* then either "Version unchanged, skipping." (return True, recorded by
\* main) or on to the download.
ProcessAppCheck(detail) ==
    /\ pc = "loop"
    /\ idx <= Len(apps)
    /\ LET cur == check_version(detail) IN
        /\ current_version' = cur
        /\ IF VersionUnchanged(cur, get_stored_version(Pkg), force)
           THEN /\ results' = [results EXCEPT ![Pkg] = "OK"]
                /\ last_run' = [last_run EXCEPT ![Pkg] = cur]
                /\ idx' = idx + 1
                /\ pc' = "loop"
           ELSE /\ pc' = "download"
                /\ UNCHANGED <<results, idx, last_run>>
    /\ success' = FALSE
    /\ UNCHANGED <<fsVars, force, list_apps, apps, exit_status, ending, runs,
                   total_classes, returncode, dlVars, artifact, monVars>>
    /\ UNCHANGED discVars

\* The href lists re.findall can return for a link pattern: the captures, in
\* the order of the text.
Hrefs(U) == AppLists(U)

\* The download page as download_apk sees it: a failure (session.get or
\* raise_for_status raises), or a text with the captures of the /r2?u= pattern
\* and of the /d?u= pattern.
DownloadPages(U) ==
    {NoPage} \cup [ok : {TRUE}, r2_links : Hrefs(U), d_links : Hrefs(U)]

\* Mutant: the CDN link is taken before the storage link.
ResolveLink_PreferD(r2_links, d_links) ==
    IF d_links /= <<>> THEN <<"https://apkcombo.com/d?u=", d_links[1]>>
    ELSE IF r2_links /= <<>> THEN <<"BASE", "/r2?u=", r2_links[1]>>
    ELSE None

\* download_apk: dl_url, from the first /r2?u= link (a path, prefixed with
\* BASE), else from the first /d?u= link (an absolute URL), else none.
ResolveLink(r2_links, d_links) ==
    IF r2_links /= <<>> THEN <<"BASE", "/r2?u=", r2_links[1]>>
    ELSE IF d_links /= <<>> THEN <<"https://apkcombo.com/d?u=", d_links[1]>>
    ELSE None

\* Mutant: the scratch directory is created if missing, never emptied.
EmptiedScratch_Kept(p) == [apks EXCEPT ![p] = IF @ = NoScratch THEN <<>> ELSE @]

\* download_apk: apks/ after "rmtree if it exists, then mkdir" of apks/<p>.
EmptiedScratch(p) == [apks EXCEPT ![p] = <<>>]

\* download_apk returned None: process_app returns False, main records it.
\* The locals of download_apk are gone.
DownloadFailed ==
    /\ results' = [results EXCEPT ![Pkg] = "FAILED"]
    /\ last_run' = [last_run EXCEPT ![Pkg] = None]
    /\ idx' = idx + 1
    /\ pc' = "loop"
    /\ dl_page' = NoPage
    /\ dl_url' = None

\* process_app calls download_apk: the scratch directory is emptied and
\* recreated and the download page is requested; on a failure of the request
\* download_apk returns None.
DownloadPage(resp) ==
    /\ pc = "download"
    /\ apks' = EmptiedScratch(Pkg)
    /\ IF ~resp.ok
       THEN DownloadFailed
       ELSE /\ dl_page' = resp
            /\ pc' = "resolve"
            /\ UNCHANGED <<results, idx, last_run, dl_url>>
    /\ UNCHANGED <<ledger, sources, dirs, force, list_apps, apps, exit_status,
                   ending, runs, current_version, success, total_classes,
                   returncode, artifact, monVars>>
    /\ UNCHANGED discVars

\* download_apk resolves dl_url from the links of the page; without a link
\* it returns None.
DownloadResolve ==
    /\ pc = "resolve"
    /\ LET url == ResolveLink(dl_page.r2_links, dl_page.d_links) IN
        IF url = None
        THEN DownloadFailed
        ELSE /\ dl_url' = url
             /\ pc' = "request"
             /\ UNCHANGED <<results, idx, last_run, dl_page>>
    /\ UNCHANGED <<fsVars, force, list_apps, apps, exit_status, ending, runs,
                   current_version, success, total_classes, returncode, artifact,
                   monVars>>
    /\ UNCHANGED discVars

\* download_apk requests dl_url (the response replaces the download page in
\* r) and writes the payload into apks/<p>: the artifact of the version the
\* site publishes at that moment. On a failure of the request it returns
\* None.
DownloadPayload(dl_ok, size, published) ==
    /\ pc = "request"
    /\ IF ~dl_ok
       THEN /\ DownloadFailed
            /\ UNCHANGED <<apks, artifact>>
       ELSE /\ apks' = [apks EXCEPT ![Pkg] = Append(@, size)]
            /\ artifact' = published
            /\ pc' = "written"
            /\ dl_page' = NoPage
            /\ dl_url' = None
            /\ UNCHANGED <<results, idx, last_run>>
    /\ UNCHANGED <<ledger, sources, dirs, force, list_apps, apps, exit_status,
                   ending, runs, current_version, success, total_classes,
                   returncode, monVars>>
    /\ UNCHANGED discVars

\* Mutant: a payload of exactly the floor is rejected too.
TooSmall_AtFloor(bytes) == bytes <= MinApkBytes

\* download_apk: "size_mb < 0.5", for a file of the given bytes.
TooSmall(bytes) == bytes < MinApkBytes

\* download_apk: the size of dest, the file just written into apks/<p>.
DestSize == apks[Pkg][Len(apks[Pkg])]

\* download_apk after the write: a file below the floor is deleted, a file
\* at or above it is returned and process_app goes on to decompile it.
SizeCheck ==
    /\ pc = "written"
    /\ IF TooSmall(DestSize)
       THEN /\ apks' = [apks EXCEPT ![Pkg] = SubSeq(@, 1, Len(@) - 1)]
            /\ artifact' = None
            /\ pc' = "rejected"
       ELSE /\ pc' = "decompile"
            /\ UNCHANGED <<apks, artifact>>
    /\ UNCHANGED <<ledger, sources, dirs, runVars, current_version, success,
                   total_classes, returncode, dlVars, monVars, last_run>>
    /\ UNCHANGED discVars

\* download_apk returns None after the deletion; process_app returns False.
DownloadRejected ==
    /\ pc = "rejected"
    /\ results' = [results EXCEPT ![Pkg] = "FAILED"]
    /\ last_run' = [last_run EXCEPT ![Pkg] = None]
    /\ idx' = idx + 1
    /\ pc' = "loop"
    /\ UNCHANGED <<fsVars, force, list_apps, apps, exit_status, ending, runs,
                   itemVars, monVars>>
    /\ UNCHANGED discVars

\* ---------------------------------------------------------- decompile_apk
\* Mutant: the output directory is created if missing, never emptied.
EmptiedTree_Kept(p) == [sources EXCEPT ![p] = IF @ = NoDir THEN 0 ELSE @]

\* decompile_apk: sources/ after "rmtree if it exists, then mkdir" of
\* sources/<p>.
EmptiedTree(p) == [sources EXCEPT ![p] = 0]

\* decompile_apk up to monitor.start(): the output directory is emptied and
\* recreated, the classes are counted, the monitor thread is started.
DecompileStart(tc) ==
    /\ pc = "decompile"
    /\ sources' = EmptiedTree(Pkg)
    /\ total_classes' = tc
    /\ stop_event' = FALSE
    /\ mpc' = "loop"
    /\ output_dir' = Pkg
    /\ last_count' = 0
    /\ progress' = NoLine
    /\ pc' = "subprocess"
    /\ UNCHANGED <<ledger, apks, dirs, runVars, current_version, success,
                   returncode, dlVars, artifact, last_run>>
    /\ UNCHANGED discVars

\* The decompiler writes one more .java file (at most maxf in the attempt).
JadxWrite(maxf) ==
    /\ pc = "subprocess"
    /\ sources[Pkg] < maxf
    /\ sources' = [sources EXCEPT ![Pkg] = @ + 1]
    /\ UNCHANGED <<ledger, apks, dirs, pc, runVars, itemVars, monVars, last_run>>
    /\ UNCHANGED discVars

\* subprocess.run returns: the decompiler exited with status rc.
JadxExit(rc) ==
    /\ pc = "subprocess"
    /\ returncode' = rc
    /\ pc' = "set_stop"
    /\ UNCHANGED <<fsVars, runVars, current_version, success, total_classes,
                   dlVars, artifact, monVars, last_run>>
    /\ UNCHANGED discVars

\* subprocess.run(timeout=1800) kills the decompiler and raises
\* TimeoutExpired; nothing in decompile_apk, process_app or main catches it.
JadxTimeout ==
    /\ pc = "subprocess"
    /\ pc' = "raised"
    /\ UNCHANGED <<fsVars, runVars, itemVars, monVars, last_run>>
    /\ UNCHANGED discVars

\* stop_event.set()
StopSet ==
    /\ pc = "set_stop"
    /\ stop_event' = TRUE
    /\ pc' = "join"
    /\ UNCHANGED <<fsVars, runVars, itemVars, mpc, output_dir, last_count,
                   progress, last_run>>
    /\ UNCHANGED discVars

\* Mutant: the main flow does not wait for the monitor thread.
JoinReturns_NoWait == TRUE

\* monitor.join() returns once the monitor thread has finished.
JoinReturns == mpc = "done"

\* The final progress line.
FinalLine == [kind |-> "final", num |-> PctFull, den |-> 1]

\* Mutant: a non-zero exit of the decompiler is a failure.
Verdict_RequiresZeroExit(java_files, rc) == java_files > 0 /\ rc = 0

\* Mutant: the verdict reuses the count the monitor saw last.
Verdict_FromMonitor(java_files, rc) == last_count > 0

\* decompile_apk's verdict: at least one .java file under the output directory.
Verdict(java_files, rc) == java_files > 0

\* decompile_apk from monitor.join() to its return: once the monitor has
\* finished, the 100% line, the output tails, the file counts, the verdict.
DecompileReport ==
    /\ pc = "join"
    /\ JoinReturns
    /\ progress' = FinalLine
    /\ success' = Verdict(sources[Pkg], returncode)
    /\ total_classes' = 0
    /\ pc' = "finish"
    /\ UNCHANGED <<fsVars, runVars, current_version, returncode, dlVars, artifact,
                   stop_event, mpc, output_dir, last_count, last_run>>
    /\ UNCHANGED discVars

\* Mutant: the version is saved whatever decompile_apk returned.
LedgerAfter_IgnoresSuccess(p, ok, cur) ==
    IF Truthy(cur) THEN save_version(p, cur) ELSE ledger

\* process_app: the ledger after "if success and current_version: save_version".
LedgerAfter(p, ok, cur) == IF ok /\ Truthy(cur) THEN save_version(p, cur) ELSE ledger

\* Mutant: the clean-up removes every scratch directory.
CleanedUp_All(p) == [q \in Packages |-> NoScratch]

\* process_app: apks/ after the clean-up of the item's scratch directory.
CleanedUp(p) == [apks EXCEPT ![p] = NoScratch]

\* process_app after decompile_apk returned: save the version, clean up,
\* return success; main records it.
ProcessAppFinish ==
    /\ pc = "finish"
    /\ ledger' = LedgerAfter(Pkg, success, current_version)
    /\ apks' = CleanedUp(Pkg)
    /\ results' = [results EXCEPT ![Pkg] = IF success THEN "OK" ELSE "FAILED"]
    /\ last_run' = [last_run EXCEPT ![Pkg] = IF success THEN current_version ELSE None]
    /\ idx' = idx + 1
    /\ pc' = "loop"
    /\ stop_event' = FALSE
    /\ mpc' = IF mpc = "done" THEN "none" ELSE mpc
    /\ last_count' = IF mpc = "done" THEN 0 ELSE last_count
    /\ progress' = NoLine
    /\ returncode' = 0
    /\ artifact' = None
    /\ UNCHANGED <<sources, dirs, force, list_apps, apps, exit_status, ending, runs,
                   current_version, success, total_classes, dlVars, output_dir>>
    /\ UNCHANGED discVars

\* The uncaught TimeoutExpired ends the interpreter: traceback, exit status
\* 1, and the daemon monitor thread dies with the process.
Crash ==
    /\ pc = "raised"
    /\ exit_status' = 1
    /\ ending' = "traceback"
    /\ last_run' = [last_run EXCEPT ![Pkg] = None]
    /\ mpc' = "none"
    /\ last_count' = 0
    /\ progress' = NoLine
    /\ total_classes' = 0
    /\ artifact' = None
    /\ pc' = "idle"
    /\ UNCHANGED <<fsVars, force, list_apps, apps, idx, results, runs,
                   current_version, success, returncode, dlVars, stop_event,
                   output_dir>>
    /\ UNCHANGED discVars

\* ------------------------------------------- monitor_decompile_progress
MonAlive == mpc \in {"loop", "poll"}

\* Mutant: the loop never looks at the event.
KeepsPolling_Always(ev) == TRUE

\* "while not stop_event.is_set()"
KeepsPolling(ev) == ~ev

\* The loop head: stop_event.wait(10) of the previous pass has returned (the
\* event was set or ten seconds passed; there is no wait before the first
\* pass), then "while not stop_event.is_set()".
MonLoop ==
    /\ mpc = "loop"
    /\ mpc' = IF KeepsPolling(stop_event) THEN "poll" ELSE "done"
    /\ UNCHANGED <<fsVars, pc, runVars, itemVars, stop_event, output_dir,
                   last_count, progress, last_run>>
    /\ UNCHANGED discVars

\* Mutant: the percentage is not capped.
ProgressLine_NoCap(count, total) ==
    IF total > 0
    THEN [kind |-> "pct", num |-> count * PctFull, den |-> total]
    ELSE [kind |-> "raw", num |-> count, den |-> 1]

\* The line the monitor prints for a count: the percentage, capped at 99.9,
\* as the exact fraction num/den in tenths of a percent; or the raw count.
ProgressLine(count, total) ==
    IF total > 0
    THEN [kind |-> "pct", num |-> Min(count * PctFull, PctCap * total), den |-> total]
    ELSE [kind |-> "raw", num |-> count, den |-> 1]

\* The digits a line shows: "{pct:5.1f}" rounds the percentage to the nearest
\* tenth (ties to the even tenth), "{count}" shows the count as it is.
Shown(line) ==
    LET q == line.num \div line.den
        rest == line.num % line.den
    IN IF 2 * rest < line.den THEN q
       ELSE IF 2 * rest > line.den THEN q + 1
       ELSE IF q % 2 = 0 THEN q ELSE q + 1

\* One pass of the loop body: count the .java files, print when the count
\* changed; then stop_event.wait(10) begins.
MonPoll ==
    /\ mpc = "poll"
    /\ LET count == sources[output_dir] IN
        IF count /= last_count
        THEN /\ progress' = ProgressLine(count, total_classes)
             /\ last_count' = count
        ELSE UNCHANGED <<progress, last_count>>
    /\ mpc' = "loop"
    /\ UNCHANGED <<fsVars, pc, runVars, itemVars, stop_event, output_dir, last_run>>
    /\ UNCHANGED discVars

\* ---------------------------------------------------------- discover_apps
\* An app link of a listing page, as the two regular expressions see it:
\* app_path (the href, which ends with the package and a slash), package,
\* and name, the capture of the name pattern built from app_path, a string
\* (None: the pattern does not match on this page).
Links == [app_path : {<<s, p, "/">> : s \in Slugs, p \in Packages},
          package : Packages,
          name : Names \cup {None}]

\* The links with one path per package and no name.
PlainLinks ==
    {l \in Links : l.name = None /\ l.app_path[1] = CHOOSE s \in Slugs : TRUE}

\* The lists of at most n of the given links a page can show: the package is
\* the last segment of the path, and the name pattern of a path finds one
\* thing on a page.
LinkLists(links, n) ==
    {ls \in UNION {[1..k -> links] : k \in 0..n} :
        /\ \A i \in 1..Len(ls) : ls[i].app_path[2] = ls[i].package
        /\ \A i, j \in 1..Len(ls) :
              ls[i].app_path = ls[j].app_path => ls[i].name = ls[j].name}

\* The page numbers a listing text may refer to with "?page=<number>": the
\* pages up to the last one, and one with a digit more.
MarkerPages(maxp) == (2..maxp) \cup {10 * maxp}

\* The responses to a listing request: a failure (session.get or
\* raise_for_status raises), or a text with its app links and the page
\* number of its "?page=<number>" reference, if it has one.
Responses(links, n, maxp) ==
    {NoResponse} \cup
    [ok : {TRUE}, links : LinkLists(links, n),
     markers : {{}} \cup {{m} : m \in MarkerPages(maxp)}]

\* f"{n}": the decimal digits of n.
RECURSIVE Digits(_)
Digits(n) == IF n < 10 THEN <<n>> ELSE Append(Digits(n \div 10), n % 10)

\* 'f"?page={page + 1}" in r.text' for a text whose "?page=<number>" references
\* are those to markers: a substring test, which a reference to any page
\* whose number starts with the digits of p + 1 satisfies.
HasNextMarker(p, markers) ==
    \E m \in markers :
        /\ Len(Digits(p + 1)) <= Len(Digits(m))
        /\ SubSeq(Digits(m), 1, Len(Digits(p + 1))) = Digits(p + 1)

\* app_path.rstrip("/")
RECURSIVE RStripSlash(_)
RStripSlash(path) ==
    IF path /= <<>> /\ path[Len(path)] = "/"
    THEN RStripSlash(SubSeq(path, 1, Len(path) - 1))
    ELSE path

\* The names dict after the loop over app_links: for each package, the name
\* found for the last link to it that has one, stripped.
RECURSIVE NamesOf(_)
NamesOf(links) ==
    IF links = <<>> THEN [p \in {} |-> None]
    ELSE LET last == links[Len(links)]
             before == NamesOf(SubSeq(links, 1, Len(links) - 1))
         IN IF last.name /= None
            THEN [p \in DOMAIN before \cup {last.package} |->
                     IF p = last.package THEN Strip(last.name) ELSE before[p]]
            ELSE before

\* names.get(package, package): the name found, or the package as the name
\* (a one-word string).
NameGet(names, package) ==
    IF package \in DOMAIN names THEN names[package] ELSE <<package>>

\* Mutant: every link is taken for a new app.
Unseen_Always(package, seen) == TRUE

\* "if package not in seen_packages"
Unseen(package, seen) == package \notin seen

\* The loop over app_links that appends the new apps: the pair of all_apps
\* and seen_packages after it.
RECURSIVE Collect(_, _, _, _, _)
Collect(links, names, d, apps_, seen) ==
    IF links = <<>> THEN <<apps_, seen>>
    ELSE LET l == Head(links) IN
         IF Unseen(l.package, seen)
         THEN Collect(Tail(links), names, d,
                      Append(apps_, [app_path |-> RStripSlash(l.app_path),
                                     package |-> l.package,
                                     name |-> NameGet(names, l.package),
                                     developer |-> d]),
                      seen \cup {l.package})
         ELSE Collect(Tail(links), names, d, apps_, seen)

\* Everything discover_apps leaves alone.
mainVars == <<fsVars, pc, runVars, itemVars, monVars, last_run>>

\* discover_apps(session, developers), up to the first request.
DiscoverApps(devs) ==
    /\ dpc = "none"
    /\ developers' = devs
    /\ all_apps' = <<>>
    /\ seen_packages' = {}
    /\ dev' = 1
    /\ page' = 1
    /\ dpc' = "get"
    /\ UNCHANGED <<r, mainVars>>

\* session.get(url); r.raise_for_status() for the page: the site answers
\* with resp (the test for a next page succeeds on at most maxp pages of a
\* developer).
Get(resp, maxp) ==
    /\ dpc = "get"
    /\ HasNextMarker(page, resp.markers) => page < maxp
    /\ r' = resp
    /\ dpc' = "page"
    /\ UNCHANGED <<developers, dev, page, all_apps, seen_packages, mainVars>>

\* Mutant: a failed request ends the whole discovery.
MoreDevelopers_StopOnFailure(d, devs) == d < Len(devs) /\ r.ok

\* The for loop over developers has a next developer to take.
MoreDevelopers(d, devs) == d < Len(devs)

\* The rest of a pass of the while loop: on a request failure or a page
\* without app links, break; else collect the new apps and go to the next
\* page if its marker is in the text, else break. After a break the for loop
\* takes the next developer, or discover_apps returns all_apps and its loop
\* variables are gone.
Page ==
    /\ dpc = "page"
    /\ LET collected == Collect(r.links, NamesOf(r.links), developers[dev],
                                all_apps, seen_packages)
           more == r.ok /\ r.links /= <<>> /\ HasNextMarker(page, r.markers)
       IN /\ all_apps' = IF r.ok THEN collected[1] ELSE all_apps
          /\ seen_packages' = IF r.ok THEN collected[2] ELSE seen_packages
          /\ IF more
             THEN /\ page' = page + 1
                  /\ dpc' = "get"
                  /\ UNCHANGED dev
             ELSE IF MoreDevelopers(dev, developers)
             THEN /\ dev' = dev + 1
                  /\ page' = 1
                  /\ dpc' = "get"
             ELSE /\ dpc' = "returned"
                  /\ dev' = 0
                  /\ page' = 0
          /\ r' = IF dpc' = "returned" THEN NoResponse ELSE r
    /\ UNCHANGED <<developers, mainVars>>

\* ---------------------------------------------------------------- claims
\* No item is mid-processing: the run is over or the loop is between items.
AtItemBoundary == pc \in {"idle", "loop"}

\* The item main processed last in this run (at an item boundary reached by
\* a return of process_app).
Prev == apps[idx - 1]

\* C1: at every item boundary, a package whose ledger file holds a version
\* has an output tree with at least one source file in it.
C1_LedgerImpliesSource ==
    AtItemBoundary => \A p \in Packages : ledger[p] /= NoFile => sources[p] > 0

\* C2: a ledger entry changes only in the step that follows a decompile_apk
\* that returned True, for the item being processed, with a non-empty
\* current_version, and then to exactly that version; every other step of
\* every other path leaves every entry as it was.
C2_SaveOnlyOnDecompileOK ==
    [][\A p \in Packages :
          ledger'[p] /= ledger[p] =>
              /\ pc = "finish"
              /\ p = Pkg
              /\ success
              /\ Truthy(current_version)
              /\ ledger'[p] = current_version]_vars

\* C2 witness: process_app has just returned after a successful decompile
\* and the item's ledger entry is the version it saw.
C2_Witness ==
    /\ pc = "loop"
    /\ idx > 1
    /\ success
    /\ Truthy(current_version)
    /\ results[Prev] = "OK"
    /\ ledger[Prev] = current_version

\* C3: when an invocation that entered the run loop is over, every item of
\* apps has an outcome recorded under its package.
C3_EveryItemGetsOutcome ==
    (pc = "idle" /\ idx >= 1) =>
        \A i \in 1..Len(apps) : results[apps[i]] /= "none"

\* C4: the step by which control leaves an item whose subprocess timed out
\* returns to the run loop with the item recorded FAILED and the ledger
\* unwritten.
C4_TimeoutIsItemFailure ==
    [][(pc = "raised" /\ pc' /= "raised") =>
          /\ pc' = "loop"
          /\ results'[Pkg] = "FAILED"
          /\ ledger' = ledger]_vars

\* C5: at every item boundary no scratch directory holds a retrieved
\* artifact: whenever download_apk returned one, apks/<p> was deleted before
\* the item's processing ended.
C5_CleanupAfterFetch ==
    AtItemBoundary => \A p \in Packages : apks[p] \in {NoScratch, <<>>}

\* C6: the step that takes the next item goes on to the download if and only
\* if not (the observed version is known, equals the stored one, and force
\* is unset); when it does not, the item ends Succeeded with ledger, scratch
\* directories and output trees unchanged.
C6_VersionGate ==
    [][(pc = "loop" /\ idx <= Len(apps)) =>
          LET cur == current_version'
              skip == Truthy(cur) /\ cur = get_stored_version(Pkg) /\ ~force
          IN /\ (pc' = "download") <=> ~skip
             /\ skip => /\ pc' = "loop"
                        /\ idx' = idx + 1
                        /\ results'[Pkg] = "OK"
                        /\ UNCHANGED <<ledger, apks, sources>>]_vars

\* C6 witness: a forced run is about to download an item whose observed
\* version equals the stored one.
C6_Witness ==
    /\ pc = "download"
    /\ force
    /\ Truthy(current_version)
    /\ current_version = get_stored_version(Pkg)

\* C7: when the observed version v differs from the stored one and the fetch
\* and the decompile succeeded, the item's processing leaves the ledger
\* entry equal to v and get_stored_version returning v.
C7_LedgerUpdatedOnChange ==
    [][(/\ pc = "finish"
        /\ success
        /\ Truthy(current_version)
        /\ current_version /= get_stored_version(Pkg)) =>
          /\ ledger'[Pkg] = current_version
          /\ StoredIn(ledger', Pkg) = current_version]_vars

\* C8: an unforced run that observes for an item the version its previous
\* processing observed and reported as up to date or done takes the
\* Unchanged path: no fetch, ledger and output tree unchanged.
C8_Idempotence ==
    [][(/\ pc = "loop"
        /\ idx <= Len(apps)
        /\ ~force
        /\ Truthy(current_version')
        /\ current_version' = last_run[Pkg]) =>
          /\ pc' = "loop"
          /\ results'[Pkg] = "OK"
          /\ UNCHANGED <<ledger, sources>>]_vars

\* C9: once control has left decompile_apk, by return or by exception, the
\* stop signal is set and the monitor thread has finished; a monitor thread
\* runs only while the main flow is inside decompile_apk.
C9_NoDanglingMonitor ==
    /\ pc \in {"finish", "raised"} => (stop_event /\ mpc = "done")
    /\ MonAlive => pc \in {"subprocess", "set_stop", "join"}

\* C10: whenever the 100% line is printed the subprocess has completed, the
\* stop signal is set and the monitor thread has finished; and no step puts
\* a monitor line over the 100% line.
C10_FinalLineAfterJoin ==
    [][/\ progress' = FinalLine =>
             (pc' = "finish" /\ stop_event' /\ mpc' = "done")
       /\ progress = FinalLine => progress' \in {FinalLine, NoLine}]_vars

\* C10 witness: the 100% line is on the terminal after the monitor printed
\* progress during the subprocess's run.
C10_Witness ==
    /\ progress = FinalLine
    /\ last_count > 0
    /\ mpc = "done"

\* C11: every percentage the monitor prints is printed by a poll of an
\* attempt whose class count is positive, equals min(count / total * 100,
\* 99.9) for the count that poll read, is at most 99.9 (as computed and as
\* shown), and is not below the percentage it replaces on the line.
C11_ProgressBound ==
    [][(progress' /= progress /\ progress'.kind = "pct") =>
          /\ mpc = "poll"
          /\ total_classes > 0
          /\ progress'.den = total_classes
          /\ progress'.num = Min(sources[output_dir] * PctFull, PctCap * total_classes)
          /\ progress'.num <= PctCap * progress'.den
          /\ Shown(progress') <= PctCap
          /\ progress.kind = "pct" =>
                /\ progress.num * progress'.den <= progress'.num * progress.den
                /\ Shown(progress) <= Shown(progress')]_vars

\* C11 witness: the monitor has reported a count above the class count, and
\* the line shows 99.9 %.
C11_Witness ==
    /\ total_classes > 0
    /\ last_count > total_classes
    /\ progress = [kind |-> "pct", num |-> PctCap * total_classes, den |-> total_classes]
    /\ Shown(progress) = PctCap

\* C12: when the subprocess has returned, decompile_apk returns True if and
\* only if the output directory then holds at least one .java file, whatever
\* the subprocess's exit status; the report itself changes no file.
C12_VerdictIsOutput ==
    [][(pc = "join" /\ pc' = "finish") =>
          /\ success' <=> sources'[Pkg] > 0
          /\ UNCHANGED <<sources, returncode>>]_vars

\* C12 witness: decompile_apk returned True for a subprocess that exited
\* non-zero and left output.
C12_Witness ==
    /\ pc = "finish"
    /\ success
    /\ returncode /= 0
    /\ sources[Pkg] > 0

\* An invocation has ended and none is running.
Ended == pc = "idle" /\ ending /= "none"

\* Some item of this invocation ended Failed.
SomeFailed == \E i \in 1..Len(apps) : results[apps[i]] = "FAILED"

\* C13 as stated: when an invocation has ended, its exit status is non-zero
\* if and only if at least one processed item ended Failed.
C13_NonZeroIffFailed ==
    Ended => (exit_status /= 0 <=> SomeFailed)

\* C13 as amended: when an invocation has ended, its exit status is non-zero
\* if and only if an item ended Failed, or main stopped before the run loop
\* on an error (jadx missing, unknown developer, package not discovered), or
\* an exception of an item's processing ended the interpreter; after the
\* summary the status is non-zero exactly when an item ended Failed, and
\* after the table of list mode it is zero.
C13_ExitStatusByEnding ==
    Ended =>
        /\ exit_status \in {0, 1}
        /\ exit_status /= 0 <=>
              \/ SomeFailed
              \/ ending \in {"no_jadx", "unknown_developer", "package_not_found"}
              \/ ending = "traceback"
        /\ ending = "summary" => (exit_status /= 0 <=> SomeFailed)
        /\ ending = "table" => exit_status = 0

\* C13 witness: a run over two items has printed its summary with one item
\* OK and one FAILED, and exited non-zero.
C13_Witness ==
    /\ Ended
    /\ ending = "summary"
    /\ Len(apps) = 2
    /\ results[apps[1]] = "OK"
    /\ results[apps[2]] = "FAILED"
    /\ exit_status = 1

\* The entry an occurrence of an identity stands for under developer d: its
\* own path (without the final slash), its own name (the package when it
\* has none), and d.
EntryOf(link, d) ==
    [app_path |-> SubSeq(link.app_path, 1, Len(link.app_path) - 1),
     package |-> link.package,
     name |-> IF link.name = None THEN <<link.package>> ELSE Strip(link.name),
     developer |-> d]

\* The entries of the first occurrences, in page order, of the identities of
\* links that are not among known.
RECURSIVE FirstOccurrences(_, _, _)
FirstOccurrences(links, known, d) ==
    IF links = <<>> THEN <<>>
    ELSE IF Head(links).package \in known
    THEN FirstOccurrences(Tail(links), known, d)
    ELSE <<EntryOf(Head(links), d)>> \o
         FirstOccurrences(Tail(links), known \cup {Head(links).package}, d)

\* The identities of a sequence of entries.
Identities(entries) == {entries[i].package : i \in 1..Len(entries)}

\* C14: all_apps holds each identity at most once, and every listing page
\* adds to it, after the entries it has, exactly the first occurrences on
\* that page of the identities it does not have yet, each as that
\* occurrence shows it under the developer of the page; entries once added
\* stay as they are.
C14_FirstOccurrenceKept ==
    [][dpc = "page" =>
          /\ all_apps' = all_apps \o
                (IF r.ok
                 THEN FirstOccurrences(r.links, Identities(all_apps), developers[dev])
                 ELSE <<>>)
          /\ \A i, j \in 1..Len(all_apps') :
                all_apps'[i].package = all_apps'[j].package => i = j]_vars

\* C15: an invocation with --list leaves the file system as it found it: the
\* ledger, the scratch directories, the output trees, and whether apks/,
\* sources/ and versions/ exist.
C15_ListModeReadOnly ==
    [][(pc = "idle" /\ list_apps') => UNCHANGED <<ledger, apks, sources, dirs>>]_vars

\* C16: a written payload below the floor is deleted and download_apk returns
\* failure, so that the item ends Failed with its scratch directory empty,
\* without a decompile attempt and with its output tree and the ledger as
\* they were; a payload at or above the floor is kept and handed to the
\* decompile step.
C16_SizeRejection ==
    [][/\ (pc = "written" /\ DestSize < MinApkBytes) =>
             /\ pc' = "rejected"
             /\ apks'[Pkg] = <<>>
             /\ UNCHANGED <<ledger, sources, results>>
       /\ (pc = "written" /\ DestSize >= MinApkBytes) =>
             /\ pc' = "decompile"
             /\ UNCHANGED <<ledger, sources, results, apks>>
       /\ pc = "rejected" =>
             /\ pc' = "loop"
             /\ idx' = idx + 1
             /\ results'[Pkg] = "FAILED"
             /\ UNCHANGED <<ledger, sources, apks>>]_vars

\* C16 witness: an undersized payload has just been deleted and download_apk
\* is about to return failure.
C16_Witness ==
    /\ pc = "rejected"
    /\ apks[Pkg] = <<>>

\* A step of the monitor thread.
MonitorStep == MonAlive /\ mpc' /= mpc /\ mpc' /= "none"

\* C17: a step of the monitor thread changes nothing but the thread's own
\* position, its last count and the progress line; while the main flow is in
\* decompile_apk the ledger and the scratch directories stay as they are;
\* and the value decompile_apk returns is fixed by the output directory the
\* subprocess left, whatever the monitor did or saw.
C17_MonitorNonInterference ==
    [][/\ MonitorStep =>
             UNCHANGED <<fsVars, pc, runVars, itemVars, stop_event, output_dir, last_run>>
       /\ pc \in {"subprocess", "set_stop", "join"} => UNCHANGED <<ledger, apks, dirs>>
       /\ (pc = "join" /\ pc' = "finish") =>
             /\ success' = (sources[Pkg] > 0)
             /\ UNCHANGED sources]_vars

\* C17 witness: decompile_apk returned True although the monitor never saw
\* a file in the output directory.
C17_Witness ==
    /\ pc = "finish"
    /\ success
    /\ sources[Pkg] > 0
    /\ last_count = 0
    /\ mpc = "done"

\* C18: a scratch directory never holds more than one file; when download_apk
\* has run, apks/<p> holds the file it has just written and nothing else, or
\* nothing; and decompile_apk launches the subprocess on an empty output
\* directory, so that what the tree holds afterwards was written by that
\* attempt.
C18_FullReplacement ==
    [][/\ \A p \in Packages : apks'[p] /= NoScratch => Len(apks'[p]) <= 1
       /\ pc \in {"download", "resolve", "request"} =>
             Len(apks'[Pkg]) = (IF pc' = "written" THEN 1 ELSE 0)
       /\ pc = "decompile" => (pc' = "subprocess" /\ sources'[Pkg] = 0)
       /\ (pc = "subprocess" /\ sources' /= sources) =>
             sources' = [sources EXCEPT ![Pkg] = @ + 1]]_vars

\* C18 witness: a new attempt for an identity that an earlier attempt
\* decompiled with success has emptied the output tree before its launch.
C18_Witness ==
    /\ pc = "subprocess"
    /\ sources[Pkg] = 0
    /\ ledger[Pkg] /= NoFile

\* C19: a step changes the ledger entry, the scratch directory or the output
\* tree of an identity only while the run loop is processing the item of
\* that identity.
C19_CrossItemFrame ==
    [][\A p \in Packages :
          (ledger'[p] /= ledger[p] \/ apks'[p] /= apks[p] \/ sources'[p] /= sources[p]) =>
              /\ pc /= "idle"
              /\ idx \in 1..Len(apps)
              /\ p = Pkg]_vars

\* C19 witness: the second item of a run has been processed, to a failure
\* that left its scratch directory behind, and the first item still has
\* its ledger entry and its output tree.
C19_Witness ==
    /\ pc = "loop"
    /\ idx = 3
    /\ results[apps[1]] = "OK"
    /\ ledger[apps[1]] /= NoFile
    /\ sources[apps[1]] > 0
    /\ apks[apps[1]] = NoScratch
    /\ results[apps[2]] = "FAILED"
    /\ apks[apps[2]] = <<>>

\* C20: a failed request for a listing page, like a page without app links,
\* ends the pagination of that developer only: all_apps and seen_packages
\* keep what they hold, the for loop takes the next developer from page 1,
\* and after the last developer discover_apps returns all_apps.
C20_FailureEndsVendorOnly ==
    [][(dpc = "page" /\ (~r.ok \/ r.links = <<>>)) =>
          /\ UNCHANGED <<all_apps, seen_packages, developers>>
          /\ IF dev < Len(developers)
             THEN dpc' = "get" /\ dev' = dev + 1 /\ page' = 1
             ELSE dpc' = "returned"]_vars

\* C20 witness: the request for a later page of the first developer failed;
\* the entries of its earlier pages are kept and the second developer's
\* first page is about to be requested.
C20_Witness ==
    /\ dpc = "get"
    /\ dev = 2
    /\ page = 1
    /\ ~r.ok
    /\ all_apps /= <<>>
    /\ \A i \in 1..Len(all_apps) : all_apps[i].developer = developers[1]

\* C21: discover_apps requests the pages of a developer in the order 1, 2,
\* 3, ...: the page number changes only at the end of a pass, by one for the
\* same developer or back to 1 for the next developer, and the request that
\* follows is for that page; page n + 1 is requested only if the request of
\* page n succeeded and its text has an app link and a reference to page
\* n + 1; and the first page for which one of these fails ends the
\* developer.
C21_PaginationProtocol ==
    [][/\ (page' /= page /\ dpc' /= "returned") =>
             /\ dpc \in {"none", "page"}
             /\ dpc' = "get"
             /\ \/ dev' = dev /\ dpc = "page" /\ page' = page + 1
                \/ dev' = dev + 1 /\ page' = 1
       /\ dpc = "get" => (dpc' = "page" /\ UNCHANGED <<dev, page>>)
       /\ dpc = "page" =>
             ((dev' = dev /\ dpc' = "get") <=>
                 (r.ok /\ r.links /= <<>> /\ (page + 1) \in r.markers))]_vars

\* C22: download_apk resolves the download URL from the first /r2?u= link of
\* the download page whenever the page has one, from the first /d?u= link
\* only when it has no /r2?u= link, and the payload request is issued only
\* to a resolved URL; with neither link the fetch fails at once: no payload
\* request, nothing written into the scratch directory, the item Failed.
C22_LinkPriority ==
    [][/\ pc = "resolve" =>
             /\ dl_page.r2_links /= <<>> =>
                   /\ pc' = "request"
                   /\ dl_url' = <<"BASE", "/r2?u=", dl_page.r2_links[1]>>
             /\ (dl_page.r2_links = <<>> /\ dl_page.d_links /= <<>>) =>
                   /\ pc' = "request"
                   /\ dl_url' = <<"https://apkcombo.com/d?u=", dl_page.d_links[1]>>
             /\ (dl_page.r2_links = <<>> /\ dl_page.d_links = <<>>) =>
                   /\ pc' = "loop"
                   /\ dl_url' = None
                   /\ results'[Pkg] = "FAILED"
                   /\ apks'[Pkg] = <<>>
                   /\ UNCHANGED <<apks, sources, ledger>>
       /\ pc' = "request" => (pc = "resolve" /\ dl_url' /= None)
       /\ pc' = "written" => pc = "request"]_vars

\* C22 witness: the page has links of both shapes, and the payload is about
\* to be requested from the first of its /r2?u= links.
C22_Witness ==
    /\ pc = "request"
    /\ dl_page.r2_links = <<"v", "u">>
    /\ dl_page.d_links /= <<>>
    /\ dl_url = <<"BASE", "/r2?u=", "v">>

\* C23: the version written to the ledger for an identity is the version the
\* site published for the artifact that was downloaded and decompiled, also
\* when the site publishes another version between the version check and the
\* download.
C23_LedgerNamesArtifact ==
    [][\A p \in Packages :
          ledger'[p] /= ledger[p] => ledger'[p] = artifact]_vars

\* C24: within a run an identity's outcome is recorded once, by the pass of
\* the run loop that is at its item; and when the run prints its summary,
\* apps is what discover_apps returned (or its one entry of the --package),
\* the loop has passed every item, every identity of apps occurs once in
\* apps and has one entry in results, results has no other entry, and the
\* printed counts add up: succeeded + failed = len(apps).
C24_SummaryAccounting ==
    [][/\ \A p \in Packages :
             results'[p] /= results[p] =>
                 \/ pc = "idle"
                 \/ p = Pkg /\ results[p] = "none" /\ idx' = idx + 1
       /\ ending' = "summary" =>
             /\ apps' \in Discovered(all_apps')
             /\ idx' = Len(apps') + 1
             /\ \A p \in Packages :
                   Cardinality({i \in 1..Len(apps') : apps'[i] = p}) =
                       (IF results'[p] = "none" THEN 0 ELSE 1)
             /\ Changed(results') + Failed(results') = Len(apps')]_vars

\* C24 witness: the summary of a run over two identities that discovery found
\* under different developers, one Succeeded and one Failed.
C24_Witness ==
    /\ Ended
    /\ ending = "summary"
    /\ Len(all_apps) = 2
    /\ all_apps[1].developer /= all_apps[2].developer
    /\ Len(apps) = 2
    /\ Changed(results) = 1
    /\ Failed(results) = 1

\* C25: once the subprocess has returned, the main flow sets the stop event,
\* the monitor thread leaves its loop (at once if it is waiting, after the
\* pass it is in otherwise), monitor.join() returns and decompile_apk
\* returns: under fair scheduling of the two threads the main flow never
\* stays blocked.
C25_JoinTerminates == (pc \in {"set_stop", "join"}) ~> (pc = "finish")

\* C25 witness: the main flow is blocked in monitor.join() with the event
\* set, while the monitor thread is in a pass of its loop that it entered
\* before the event was set.
C25_Witness ==
    /\ pc = "join"
    /\ stop_event
    /\ mpc = "poll"

\* ------------------------------------------------------- specifications
\* One step of the program, with the inputs of the outside world drawn from
\* the given sets (discovered: main runs after discover_apps has returned,
\* over what it returned).
Step(lists, pages, urls, arts, maxc, maxf, once, discovered) ==
    \/ \E f, l, jadx, dev_ok, pkg_given \in BOOLEAN :
          \E a \in IF discovered THEN Discovered(all_apps) ELSE lists :
              /\ discovered => dpc = "returned"
              /\ Main(f, l, jadx, dev_ok, pkg_given, a, once)
    \/ \E detail \in pages : ProcessAppCheck(detail)
    \/ \E resp \in DownloadPages(urls) : DownloadPage(resp)
    \/ DownloadResolve
    \/ \E dl_ok \in BOOLEAN, size \in PayloadSizes, published \in arts :
          DownloadPayload(dl_ok, size, published)
    \/ SizeCheck
    \/ DownloadRejected
    \/ \E tc \in 0..maxc : DecompileStart(tc)
    \/ JadxWrite(maxf)
    \/ \E rc \in 0..1 : JadxExit(rc)
    \/ JadxTimeout
    \/ StopSet
    \/ DecompileReport
    \/ ProcessAppFinish
    \/ Crash
    \/ Summary
    \/ MonLoop
    \/ MonPoll

Next == Step(AppLists({"a.b"}), Pages(MaxVerLen), {"u"}, {None}, FewClasses, FewFiles, FALSE, FALSE)

Spec == Init /\ [][Next]_vars

NextMon == Step(AppLists({"a.b"}), Pages(FewVerLen), {"u"}, {None}, MaxClasses, MaxFiles,
                FALSE, FALSE)

SpecMon == Init /\ [][NextMon]_vars

NextRun ==
    Step(AppLists(Packages), Pages(FewVerLen), Urls, {None}, FewClasses, FewFiles,
         TRUE, FALSE)

SpecRun == Init /\ [][NextRun]_vars

\* One invocation with --package under fair scheduling of the main thread
\* and the monitor thread: each thread that can take a step of
\* decompile_apk's shutdown eventually takes it.
NextJoin ==
    Step(AppLists({"a.b"}), Pages(FewVerLen), {"u"}, {None}, FewClasses, FewFiles,
         TRUE, FALSE)

SpecJoin ==
    /\ Init
    /\ [][NextJoin]_vars
    /\ WF_vars(StopSet)
    /\ WF_vars(MonLoop)
    /\ WF_vars(MonPoll)
    /\ WF_vars(DecompileReport)

NextRace ==
    Step(AppLists({"a.b"}), Pages(FewVerLen), {"u"}, Published(FewVerLen),
         FewClasses, FewFiles, FALSE, FALSE)

SpecRace == Init /\ [][NextRace]_vars

\* The developers main passes to discover_apps: all of them, or the one
\* --developer names.
DevLists == {DEVELOPERS} \cup {<<DEVELOPERS[i]>> : i \in 1..Len(DEVELOPERS)}

\* One step of discover_apps, called once.
DiscStep(devlists, links, maxl, maxp) ==
    \/ \E devs \in devlists : DiscoverApps(devs)
    \/ \E resp \in Responses(links, maxl, maxp) : Get(resp, maxp)
    \/ Page

NextDisc == DiscStep(DevLists, Links, MaxLinks, FewPages)

SpecDisc == Init /\ [][NextDisc]_vars

NextPages == DiscStep(DevLists, PlainLinks, FewLinks, MaxPages)

SpecPages == Init /\ [][NextPages]_vars

\* One invocation over all the tracked developers, from discovery on: main
\* runs over what discover_apps returned.
NextAll ==
    \/ DiscStep({DEVELOPERS}, PlainLinks, FewLinks, FewPages)
    \/ Step({}, Pages(FewVerLen), {"u"}, {None}, FewClasses, FewFiles, TRUE, TRUE)

SpecAll == Init /\ [][NextAll]_vars
====
